---- MODULE Spec2Model ----
(***************************************************************************)
(* Model of src/top_items/git_checkouts.rs (cargo-cache): the per-project  *)
(* statistics of the git checkouts of a cargo cache.                       *)
(*                                                                         *)
(*   stats_from_file_desc_list  the consecutive-run aggregator, one action *)
(*                              per arm of its loop                        *)
(*   chkout_list_to_string      the ranker and renderer, one action        *)
(*                                                                         *)
(* Text (String, &str, path components) is a sequence of one-character     *)
(* strings, so that split('-'), join("-"), to_string() and the table       *)
(* layout are computed and not assumed.  A path is the sequence of its     *)
(* components.  Option<T> is the empty sequence (None) or <<x>> (Some(x)). *)
(*                                                                         *)
(* counter is a u32 and size, total_size are u64: the sums of the model    *)
(* stay below MaxLen * MaxSize, far from either width, so the additions    *)
(* are exact and wrap-around is outside the model.                         *)
(***************************************************************************)
EXTENDS Integers, Sequences, FiniteSets, TLC

(***************************************************************************)
(* Bounds of the model.                                                    *)
(***************************************************************************)
\* longest descriptor list handed to the aggregator
MaxLen ==
    3
\* largest size (in bytes) of one checkout
MaxSize ==
    1
\* largest limit handed to the renderer
MaxLimit ==
    3
\* longest path component handed to name_from_pb on its own
MaxEntries ==
    2

MaxFolders ==
    2

MaxSegLen ==
    5

(***************************************************************************)
(* Text helpers.                                                           *)
(***************************************************************************)
Hyphen == "-"
Space == " "
Newline == "\n"

None == <<>>
Some(x) == <<x>>
IsSome(o) == o # None
Unwrap(o) == o[1]

\* the value of an unwrap() on None, or of panic!(): the call does not return
Panic == <<"!panic">>

Min(a, b) == IF a <= b THEN a ELSE b

\* str::split(sep): the pieces between the separators; a text without a
\* separator (also the empty text) is one piece
RECURSIVE Split(_, _)
Split(s, sep) ==
    IF \E i \in 1..Len(s) : s[i] = sep
    THEN LET i == CHOOSE k \in 1..Len(s) :
                      /\ s[k] = sep
                      /\ \A j \in 1..(k - 1) : s[j] # sep
         IN  <<SubSeq(s, 1, i - 1)>> \o Split(SubSeq(s, i + 1, Len(s)), sep)
    ELSE <<s>>

\* [&str]::join(sep)
RECURSIVE Join(_, _)
Join(toks, sep) ==
    IF toks = <<>> THEN <<>>
    ELSE IF Len(toks) = 1 THEN toks[1]
    ELSE toks[1] \o <<sep>> \o Join(Tail(toks), sep)

\* all elements but the last (Vec::pop, the second half of split_last)
AllButLast(s) == SubSeq(s, 1, Len(s) - 1)

Digit(d) == <<"0", "1", "2", "3", "4", "5", "6", "7", "8", "9">>[d + 1]

\* u32::to_string / the integer part of humansize: decimal digits
RECURSIVE ToDecimal(_)
ToDecimal(n) ==
    IF n < 10 THEN <<Digit(n)>>
    ELSE ToDecimal(n \div 10) \o <<Digit(n % 10)>>

\* humansize file_size(DECIMAL) of a byte count below 1000: "<n> B"
\* (the model's totals stay below 1000, where no unit prefix is applied)
FileSize(n) == ToDecimal(n) \o <<Space, "B">>

(***************************************************************************)
(* Paths, the filesystem and the descriptors.                              *)
(***************************************************************************)
\* ~/.cargo/git/checkouts, shortened
CheckoutsDir == << <<"c", "o">> >>

\* <checkouts>/<project>-<suffix>/<revision>
PathA == CheckoutsDir \o << <<"a", "-", "x">>, <<"r">> >>
PathBC == CheckoutsDir \o << <<"b", "-", "c", "-", "y">>, <<"s">> >>
CheckoutPaths == {PathA, PathBC}

\* the path of a descriptor written as a literal, as the tests do:
\* PathBuf::from("crateA") with name "crateA"; it names nothing on disk
LiteralNames == { <<"a">> }
LiteralPath(n) == <<n>>

\* PathBuf::from("ERROR 1/err1") and PathBuf::from("ERROR 2/err2")
Error1Path == << <<"E", "R", "R", "O", "R", " ", "1">>, <<"e", "r", "r", "1">> >>
Error2Path == << <<"E", "R", "R", "O", "R", " ", "2">>, <<"e", "r", "r", "2">> >>

\* a filesystem maps each checkout path to its directory entry, or to NoEntry
\* when the checkout has been removed; no other path of the model exists
NoEntry == [absent |-> TRUE]
DirLens == {0}
FsEntries == {NoEntry} \cup [len : DirLens]

Exists(f, path) == path \in DOMAIN f /\ f[path] # NoEntry

\* Path::file_name: the last component
FileName(path) == path[Len(path)]

\* mutant: the name is the first hyphen token of the last-but-one component
name_from_pb_first_token(path) ==
    IF Len(path) < 2 THEN Panic
    ELSE LET last == path[Len(path) - 1]
             last_but_one == Split(last, Hyphen)
         IN  last_but_one[1]

\* name_from_pb: the last-but-one component without its last hyphen token;
\* split_last().unwrap() panics on a path of no or of one component
name_from_pb(path) ==
    IF Len(path) < 2 THEN Panic
    ELSE LET last == path[Len(path) - 1]
             last_but_one == Split(last, Hyphen)
         IN  Join(AllButLast(last_but_one), Hyphen)

\* FileDesc, as new_from_git_checkouts builds it for a checkout folder
FileDescBuilt(path, size) ==
    [path |-> path, name |-> name_from_pb(path), size |-> size]

\* FileDesc, as the tests write it: path and name are the same text
FileDescLiteral(n, size) ==
    [path |-> LiteralPath(n), name |-> n, size |-> size]

FileDescs ==
    {FileDescBuilt(p, s) : p \in CheckoutPaths, s \in 0..MaxSize}
        \cup {FileDescLiteral(n, s) : n \in LiteralNames, s \in 0..MaxSize}

SeqsUpTo(S, n) == UNION {[1..k -> S] : k \in 0..n}

(***************************************************************************)
(* ChkInfo.                                                                *)
(***************************************************************************)
\* ChkInfo::new: the name is taken from the path and from the filesystem
ChkInfoNew(f, path, cnt, total) ==
    IF Exists(f, path)
    THEN LET a == AllButLast(path)
             name_tmp == FileName(a)
             tmp == Split(name_tmp, Hyphen)
         IN  [name |-> Join(AllButLast(tmp), Hyphen),
              size |-> f[path].len,
              counter |-> cnt,
              total_size |-> total]
    ELSE [name |-> FileName(path),
          size |-> 0,
          counter |-> cnt,
          total_size |-> total]

(***************************************************************************)
(* State.                                                                  *)
(***************************************************************************)
VARIABLES
    file_descs,      \* the argument of stats_from_file_desc_list
    fs,              \* the filesystem ChkInfo::new looks at
    iter,            \* how many descriptors iter.next() has handed out
    state,           \* Pair {current, previous}
    out,             \* the groups saved so far; the returned Vec<ChkInfo>
    chkinfo,         \* the pending group
    counter,         \* how many descriptors the pending group holds
    total_size,      \* the summed size of the pending group
    pc,              \* where the program is
    limit,           \* the limit handed to chkout_list_to_string
    collections_vec, \* the renderer's vector after sort() and reverse()
    table_matrix,    \* the renderer's rows
    output,          \* the text chkout_list_to_string returns
    iterations,      \* how often the body of the aggregator's loop has run
    path_arg,        \* the argument of a call of name_from_pb
    name_out,        \* what that call returned
    tree,            \* the entries WalkDir finds below one checkout
    pos,             \* the entry the walk looks at next
    yielded,         \* the entry handed to the filter, if any
    enumerated,      \* the entries the walk has handed out
    collected,       \* the entries that passed f.exists()
    measured,        \* the entries whose metadata has been read
    probe_size,      \* the sum of the lengths read
    root_exists,     \* dir_exists(path)
    folders,         \* cache.git_checkouts.checkout_folders()
    cache_total,     \* cache.git_checkouts.total_size()
    next_folder,     \* how many folders file_desc_from_path has mapped
    report,          \* the String output of git_checkouts_stats
    result,          \* what git_checkouts_stats returned, if it has
    reads            \* what of the cache and of the checkouts was read

nameVars == <<path_arg, name_out>>
probeVars == <<tree, pos, yielded, enumerated, collected, measured, probe_size>>
reportVars == <<root_exists, folders, cache_total, next_folder, report, result,
                reads>>

\* the state of the other functions of the file, idle while the aggregator
\* and the renderer are looked at on their own
extVars == <<nameVars, probeVars, reportVars>>

vars == <<file_descs, fs, iter, state, out, chkinfo, counter, total_size, pc,
          limit, collections_vec, table_matrix, output, iterations, extVars>>

aggVars == <<out, chkinfo, counter, total_size>>
renderVars == <<limit, collections_vec, table_matrix, output>>

\* Iterator::next on the vector's into_iter()
IterNext == IF iter < Len(file_descs) THEN Some(file_descs[iter + 1]) ELSE None
IterAfter == IF iter < Len(file_descs) THEN iter + 1 ELSE iter

\* no call of name_from_pb on its own is under way
IdleName ==
    /\ path_arg = None
    /\ name_out = None

\* no size probe on its own is under way
IdleProbe ==
    /\ tree = <<>>
    /\ pos = 0
    /\ yielded = None
    /\ enumerated = {}
    /\ collected = {}
    /\ measured = {}
    /\ probe_size = 0

\* no call of git_checkouts_stats is under way
IdleReport ==
    /\ root_exists = FALSE
    /\ folders = <<>>
    /\ cache_total = 0
    /\ next_folder = 0
    /\ report = <<>>
    /\ result = None
    /\ reads = {}

Init ==
    /\ file_descs \in SeqsUpTo(FileDescs, MaxLen)
    /\ fs \in [CheckoutPaths -> FsEntries]
    /\ iter = 0
    /\ state = [current |-> None, previous |-> None]
    /\ out = <<>>
    /\ chkinfo = ChkInfoNew(fs, Error1Path, 0, 0)
    /\ counter = 0
    /\ total_size = 0
    /\ pc = "start"
    /\ limit = None
    /\ collections_vec = <<>>
    /\ table_matrix = <<>>
    /\ output = <<>>
    /\ iterations = 0
    /\ IdleName
    /\ IdleProbe
    /\ IdleReport

(***************************************************************************)
(* stats_from_file_desc_list.                                              *)
(***************************************************************************)
\* "switch and queue next()": state.previous = state.current;
\* state.current = iter.next()
Shift ==
    /\ state' = [current |-> IterNext, previous |-> state.current]
    /\ iter' = IterAfter

\* mutant: the loop runs only while a current descriptor is left
LoopCondCurrentOnly == IsSome(state.current)

\* the condition of the while loop
LoopCond == IsSome(state.previous) \/ IsSome(state.current)

\* the first shift, before the loop
StartLooping ==
    /\ pc = "start"
    /\ Shift
    /\ pc' = "loop"
    /\ UNCHANGED <<file_descs, fs, aggVars, renderVars, iterations, extVars>>

\* mutant: the first descriptor is handled like a change of name, so the
\* pending line is saved before the first group is opened
ArmFirstSavesLine ==
    /\ pc = "loop" /\ LoopCond
    /\ IsSome(state.current) /\ ~IsSome(state.previous)
    /\ LET current == Unwrap(state.current)
       IN  /\ out' = Append(out, chkinfo)
           /\ total_size' = 0 + current.size
           /\ counter' = 0 + 1
           /\ chkinfo' = ChkInfoNew(fs, current.path, counter', total_size')
    /\ Shift
    /\ iterations' = iterations + 1
    /\ UNCHANGED <<file_descs, fs, pc, renderVars, extVars>>

\* arm (current: Some, previous: None): the first descriptor
ArmFirst ==
    /\ pc = "loop" /\ LoopCond
    /\ IsSome(state.current) /\ ~IsSome(state.previous)
    /\ LET current == Unwrap(state.current)
       IN  /\ total_size' = total_size + current.size
           /\ counter' = counter + 1
           /\ chkinfo' = ChkInfoNew(fs, current.path, counter', total_size')
    /\ Shift
    /\ iterations' = iterations + 1
    /\ UNCHANGED <<file_descs, fs, out, pc, renderVars, extVars>>

\* mutant: the same-name arm adds the size but does not count the descriptor
ArmSameNameNoCount ==
    /\ pc = "loop" /\ LoopCond
    /\ IsSome(state.current) /\ IsSome(state.previous)
    /\ LET current == Unwrap(state.current)
           previous == Unwrap(state.previous)
       IN  /\ current.name = previous.name
           /\ total_size' = total_size + current.size
           /\ counter' = counter
           /\ chkinfo' = ChkInfoNew(fs, current.path, counter', total_size')
    /\ Shift
    /\ iterations' = iterations + 1
    /\ UNCHANGED <<file_descs, fs, out, pc, renderVars, extVars>>

\* mutant: the same-name arm saves the pending line at every descriptor
ArmSameNameSavesLine ==
    /\ pc = "loop" /\ LoopCond
    /\ IsSome(state.current) /\ IsSome(state.previous)
    /\ LET current == Unwrap(state.current)
           previous == Unwrap(state.previous)
       IN  /\ current.name = previous.name
           /\ out' = Append(out, chkinfo)
           /\ total_size' = total_size + current.size
           /\ counter' = counter + 1
           /\ chkinfo' = ChkInfoNew(fs, current.path, counter', total_size')
    /\ Shift
    /\ iterations' = iterations + 1
    /\ UNCHANGED <<file_descs, fs, pc, renderVars, extVars>>

\* arm (current: Some, previous: Some), current.name == previous.name
ArmSameName ==
    /\ pc = "loop" /\ LoopCond
    /\ IsSome(state.current) /\ IsSome(state.previous)
    /\ LET current == Unwrap(state.current)
           previous == Unwrap(state.previous)
       IN  /\ current.name = previous.name
           /\ total_size' = total_size + current.size
           /\ counter' = counter + 1
           /\ chkinfo' = ChkInfoNew(fs, current.path, counter', total_size')
    /\ Shift
    /\ iterations' = iterations + 1
    /\ UNCHANGED <<file_descs, fs, out, pc, renderVars, extVars>>

\* mutant: the other-name arm saves the old line but keeps its summed size
ArmOtherNameNoReset ==
    /\ pc = "loop" /\ LoopCond
    /\ IsSome(state.current) /\ IsSome(state.previous)
    /\ LET current == Unwrap(state.current)
           previous == Unwrap(state.previous)
       IN  /\ current.name # previous.name
           /\ out' = Append(out, chkinfo)
           /\ total_size' = total_size + current.size
           /\ counter' = 0 + 1
           /\ chkinfo' = ChkInfoNew(fs, current.path, counter', total_size')
    /\ Shift
    /\ iterations' = iterations + 1
    /\ UNCHANGED <<file_descs, fs, pc, renderVars, extVars>>

\* arm (current: Some, previous: Some), current.name != previous.name
ArmOtherName ==
    /\ pc = "loop" /\ LoopCond
    /\ IsSome(state.current) /\ IsSome(state.previous)
    /\ LET current == Unwrap(state.current)
           previous == Unwrap(state.previous)
       IN  /\ ~(current.name = previous.name)
           /\ current.name # previous.name
           /\ out' = Append(out, chkinfo)
           /\ total_size' = 0 + current.size
           /\ counter' = 0 + 1
           /\ chkinfo' = ChkInfoNew(fs, current.path, counter', total_size')
    /\ Shift
    /\ iterations' = iterations + 1
    /\ UNCHANGED <<file_descs, fs, pc, renderVars, extVars>>

\* mutant: the last arm saves the line but does not reset the counters
ArmLastNoReset ==
    /\ pc = "loop" /\ LoopCond
    /\ ~IsSome(state.current) /\ IsSome(state.previous)
    /\ out' = Append(out, chkinfo)
    /\ chkinfo' = ChkInfoNew(fs, Error2Path, 0, 0)
    /\ UNCHANGED <<counter, total_size>>
    /\ Shift
    /\ iterations' = iterations + 1
    /\ UNCHANGED <<file_descs, fs, pc, renderVars, extVars>>

\* arm (current: None, previous: Some): the input is exhausted
ArmLast ==
    /\ pc = "loop" /\ LoopCond
    /\ ~IsSome(state.current) /\ IsSome(state.previous)
    /\ out' = Append(out, chkinfo)
    /\ chkinfo' = ChkInfoNew(fs, Error2Path, 0, 0)
    /\ counter' = 0
    /\ total_size' = 0
    /\ Shift
    /\ iterations' = iterations + 1
    /\ UNCHANGED <<file_descs, fs, pc, renderVars, extVars>>

\* the loop condition fails: return out
Return ==
    /\ pc = "loop" /\ ~LoopCond
    /\ pc' = "returned"
    /\ UNCHANGED <<file_descs, fs, iter, state, aggVars, renderVars, iterations,
                   extVars>>

(***************************************************************************)
(* chkout_list_to_string.                                                  *)
(***************************************************************************)
\* Ord::cmp of two ChkInfo
ChkInfoCmp(x, y) ==
    IF x.total_size < y.total_size THEN "Less"
    ELSE IF x.total_size = y.total_size THEN "Equal"
    ELSE "Greater"

\* mutant: an insertion that puts x in front of the elements equal to it
InsertSortedBeforeEqual(sorted, x) ==
    LET k == Cardinality({i \in 1..Len(sorted) :
                              ChkInfoCmp(sorted[i], x) = "Less"})
    IN  SubSeq(sorted, 1, k) \o <<x>> \o SubSeq(sorted, k + 1, Len(sorted))

\* one insertion of the stable sort: x goes behind every element that does
\* not compare Greater than x
InsertSorted(sorted, x) ==
    LET k == Cardinality({i \in 1..Len(sorted) :
                              ChkInfoCmp(sorted[i], x) # "Greater"})
    IN  SubSeq(sorted, 1, k) \o <<x>> \o SubSeq(sorted, k + 1, Len(sorted))

\* Vec::sort: ascending by Ord, stable (equal elements keep their order)
RECURSIVE Sort(_)
Sort(v) ==
    IF v = <<>> THEN <<>>
    ELSE InsertSorted(Sort(AllButLast(v)), v[Len(v)])

\* Vec::reverse
Reverse(v) == [i \in 1..Len(v) |-> v[Len(v) + 1 - i]]

\* mutant: the vector is sorted but not reversed
SortedNotReversed(v) == Sort(v)

\* mutant: the vector is reversed but not sorted
ReversedNotSorted(v) == Reverse(v)

\* collections_vec.sort(); collections_vec.reverse();
SortedReversed(v) == Reverse(Sort(v))

\* Iterator::take
Take(v, n) == SubSeq(v, 1, Min(n, Len(v)))

HeaderRow ==
    << <<"N", "a", "m", "e">>,
       <<"C", "o", "u", "n", "t">>,
       <<"A", "v", "e", "r", "a", "g", "e">>,
       <<"T", "o", "t", "a", "l">> >>

\* chkout.total_size / u64::from(chkout.counter): a division by zero panics
DivPanics(chkout) == chkout.counter = 0

\* mutant: the average is rounded up instead of truncated
RowAverageRoundedUp(chkout) ==
    <<chkout.name,
      ToDecimal(chkout.counter),
      FileSize((chkout.total_size + chkout.counter - 1) \div chkout.counter),
      FileSize(chkout.total_size)>>

\* the row pushed for one group
Row(chkout) ==
    <<chkout.name,
      ToDecimal(chkout.counter),
      FileSize(chkout.total_size \div chkout.counter),
      FileSize(chkout.total_size)>>

\* table_matrix, as handed to format_table
TableMatrix(l, v) ==
    LET shown == Take(SortedReversed(v), l)
    IN  <<HeaderRow>> \o [i \in 1..Len(shown) |-> Row(shown[i])]

\* format_table: every cell right-padded to the widest cell of its column,
\* the cells of a row joined by one space, no blanks at the end of a row,
\* every row ended by a newline
Repeat(c, n) == [i \in 1..n |-> c]

ColumnWidth(matrix, col) ==
    LET lens == {Len(matrix[r][col]) : r \in 1..Len(matrix)}
    IN  CHOOSE w \in lens : \A x \in lens : x <= w

PadCell(matrix, r, col) ==
    matrix[r][col] \o Repeat(Space, ColumnWidth(matrix, col) - Len(matrix[r][col]))

RECURSIVE TrimEnd(_)
TrimEnd(s) ==
    IF s # <<>> /\ s[Len(s)] = Space THEN TrimEnd(AllButLast(s)) ELSE s

FormatRow(matrix, r) ==
    TrimEnd(Join([col \in 1..Len(matrix[r]) |-> PadCell(matrix, r, col)], Space))
        \o <<Newline>>

RECURSIVE FormatRows(_, _)
FormatRows(matrix, n) ==
    IF n = 0 THEN <<>> ELSE FormatRows(matrix, n - 1) \o FormatRow(matrix, n)

format_table(matrix) == FormatRows(matrix, Len(matrix))

\* mutant: no early return for an empty vector
chkout_list_to_string_no_empty_check(l, v) ==
    IF \E i \in 1..Min(l, Len(v)) : DivPanics(SortedReversed(v)[i])
    THEN Panic
    ELSE format_table(TableMatrix(l, v))

\* mutant: a limit of 0 is answered like an empty vector
chkout_list_to_string_empty_on_zero(l, v) ==
    IF v = <<>> \/ l = 0 THEN <<>>
    ELSE IF \E i \in 1..Min(l, Len(v)) : DivPanics(SortedReversed(v)[i])
    THEN Panic
    ELSE format_table(TableMatrix(l, v))

\* the text chkout_list_to_string(l, v) returns, or Panic
chkout_list_to_string(l, v) ==
    IF v = <<>> THEN <<>>
    ELSE IF \E i \in 1..Min(l, Len(v)) : DivPanics(SortedReversed(v)[i])
    THEN Panic
    ELSE format_table(TableMatrix(l, v))

\* the call chkout_list_to_string(limit, summary) on the aggregator's result
Render ==
    /\ pc = "returned"
    /\ \E l \in 0..MaxLimit :
          /\ limit' = Some(l)
          /\ output' = chkout_list_to_string(l, out)
          /\ IF out = <<>>
             THEN /\ collections_vec' = out
                  /\ table_matrix' = <<>>
             ELSE /\ collections_vec' = SortedReversed(out)
                  /\ table_matrix' =
                        IF output' = Panic THEN <<HeaderRow>>
                        ELSE TableMatrix(l, out)
          /\ pc' = IF output' = Panic THEN "panicked" ELSE "rendered"
    /\ UNCHANGED <<file_descs, fs, iter, state, aggVars, iterations, extVars>>

Next ==
    \/ StartLooping
    \/ ArmFirst
    \/ ArmSameName
    \/ ArmOtherName
    \/ ArmLast
    \/ Return
    \/ Render

Spec == Init /\ [][Next]_vars

(***************************************************************************)
(* name_from_pb on its own: one call on a path drawn from NamePaths.       *)
(***************************************************************************)
\* the aggregator and the renderer are not running
IdleAggregator ==
    /\ file_descs = <<>>
    /\ fs = [p \in CheckoutPaths |-> NoEntry]
    /\ iter = 0
    /\ state = [current |-> None, previous |-> None]
    /\ out = <<>>
    /\ chkinfo = ChkInfoNew(fs, Error1Path, 0, 0)
    /\ counter = 0
    /\ total_size = 0
    /\ limit = None
    /\ collections_vec = <<>>
    /\ table_matrix = <<>>
    /\ output = <<>>
    /\ iterations = 0

NameChars == {"a", Hyphen}

\* path components: a component of a PathBuf is never empty
Segments == UNION {[1..k -> NameChars] : k \in 1..MaxSegLen}

\* paths of no, one or two components, alone or below the checkouts folder
NamePaths ==
    {prefix \o tail : prefix \in {<<>>, CheckoutsDir},
                      tail \in SeqsUpTo(Segments, 2)}

InitName ==
    /\ IdleAggregator
    /\ pc = "name_call"
    /\ path_arg \in {Some(p) : p \in NamePaths}
    /\ name_out = None
    /\ IdleProbe
    /\ IdleReport

\* let name = name_from_pb(&path)
CallNameFromPb ==
    /\ pc = "name_call"
    /\ name_out' = name_from_pb(Unwrap(path_arg))
    /\ pc' = IF name_out' = Panic THEN "panicked" ELSE "name_done"
    /\ UNCHANGED <<file_descs, fs, iter, state, aggVars, renderVars, iterations,
                   path_arg, probeVars, reportVars>>

NextName == CallNameFromPb

SpecName == InitName /\ [][NextName]_vars

(***************************************************************************)
(* The size of one checkout, as FileDesc::new_from_git_checkouts sums it:  *)
(* the walk hands out the entries one by one, each passes f.exists() or is *)
(* dropped, the survivors are collected, and then their metadata is read   *)
(* in parallel, in any order.  Another process may delete entries          *)
(* meanwhile.                                                              *)
(***************************************************************************)
\* entry 0 is the checkout folder itself, the others lie below it
Entries == 0..MaxEntries
Deletable == 1..MaxEntries

InitProbe ==
    /\ IdleAggregator
    /\ IdleName
    /\ IdleReport
    /\ pc = "probe_walk"
    /\ tree \in [Entries -> [present : {TRUE}, len : 0..MaxSize]]
    /\ tree[0].len \in DirLens
    /\ pos = 0
    /\ yielded = None
    /\ enumerated = {}
    /\ collected = {}
    /\ measured = {}
    /\ probe_size = 0

probeFrame ==
    <<file_descs, fs, iter, state, aggVars, renderVars, iterations, nameVars,
      reportVars>>

\* walkdir.into_iter().map(|e| e.unwrap().path().to_owned()): the next entry,
\* if it is still there when its folder is listed
WalkNext ==
    /\ pc = "probe_walk"
    /\ yielded = None
    /\ pos <= MaxEntries
    /\ pos' = pos + 1
    /\ IF tree[pos].present
       THEN /\ yielded' = Some(pos)
            /\ enumerated' = enumerated \cup {pos}
       ELSE UNCHANGED <<yielded, enumerated>>
    /\ UNCHANGED <<pc, tree, collected, measured, probe_size>>
    /\ UNCHANGED probeFrame

\* .filter(|f| f.exists())
FilterExists ==
    /\ pc = "probe_walk"
    /\ IsSome(yielded)
    /\ collected' = IF tree[Unwrap(yielded)].present
                    THEN collected \cup {Unwrap(yielded)}
                    ELSE collected
    /\ yielded' = None
    /\ UNCHANGED <<pc, tree, pos, enumerated, measured, probe_size>>
    /\ UNCHANGED probeFrame

\* .collect::<Vec<_>>(): the walk is over
Collect ==
    /\ pc = "probe_walk"
    /\ yielded = None
    /\ pos > MaxEntries
    /\ pc' = "probe_measure"
    /\ UNCHANGED probeVars
    /\ UNCHANGED probeFrame

\* fs::metadata(f).unwrap_or_else(|_| panic!(..)).len() on one collected
\* entry; par_iter reads them in any order
ReadMetadata ==
    /\ pc = "probe_measure"
    /\ \E e \in collected \ measured :
          IF tree[e].present
          THEN /\ measured' = measured \cup {e}
               /\ probe_size' = probe_size + tree[e].len
               /\ pc' = pc
          ELSE /\ pc' = "panicked"
               /\ UNCHANGED <<measured, probe_size>>
    /\ UNCHANGED <<tree, pos, yielded, enumerated, collected>>
    /\ UNCHANGED probeFrame

\* .sum(): every collected entry has been read
SumSizes ==
    /\ pc = "probe_measure"
    /\ measured = collected
    /\ pc' = "probe_done"
    /\ UNCHANGED probeVars
    /\ UNCHANGED probeFrame

\* another process deletes an entry below the checkout folder
ExternalDelete ==
    /\ pc \in {"probe_walk", "probe_measure"}
    /\ \E e \in Deletable :
          /\ tree[e].present
          /\ tree' = [tree EXCEPT ![e].present = FALSE]
    /\ UNCHANGED <<pc, pos, yielded, enumerated, collected, measured,
                   probe_size>>
    /\ UNCHANGED probeFrame

NextProbe ==
    \/ WalkNext
    \/ FilterExists
    \/ Collect
    \/ ReadMetadata
    \/ SumSizes
    \/ ExternalDelete

SpecProbe == InitProbe /\ [][NextProbe]_vars

(***************************************************************************)
(* git_checkouts_stats: the check of the root folder, the summary line,    *)
(* file_desc_from_path, the aggregator, the renderer.                      *)
(***************************************************************************)
\* a second checkout of project a, a checkout folder without hyphen and a
\* path of one component
PathA2 == CheckoutsDir \o << <<"a", "-", "z">>, <<"t">> >>
PathNoHyphen == CheckoutsDir \o << <<"h">>, <<"r">> >>
PathOneComponent == << <<"m">> >>

ReportFolders == CheckoutPaths \cup {PathA2, PathNoHyphen, PathOneComponent}

\* the checkout folders the filesystem may hold
ReportFsPaths == CheckoutPaths \cup {PathA2, PathNoHyphen}

\* a folder listing names no folder twice
DistinctSeqs(S, n) ==
    {v \in SeqsUpTo(S, n) : \A i, j \in 1..Len(v) : v[i] = v[j] => i = j}

\* Path::display
Display(path) == Join(path, "/")

\* format!("\nSummary of: {} ({} total)\n", path.display(), <total size>)
SummaryLine(path, total) ==
    <<Newline, "S", "u", "m", "m", "a", "r", "y", Space, "o", "f", ":", Space>>
        \o Display(path) \o <<Space, "(">> \o FileSize(total)
        \o <<Space, "t", "o", "t", "a", "l", ")", Newline>>

\* what the size computation of new_from_git_checkouts comes to for a
\* checkout folder: WalkDir's first item is an error when the folder is not
\* there, and e.unwrap() panics; otherwise a sum, or the panic of a failed
\* metadata read
ProbePanics == [panics |-> TRUE, size |-> 0]

ProbeOutcomes(f, path) ==
    IF Exists(f, path)
    THEN {[panics |-> FALSE, size |-> n] : n \in 0..MaxSize} \cup {ProbePanics}
    ELSE {ProbePanics}

InitReport ==
    /\ file_descs = <<>>
    /\ fs \in [ReportFsPaths -> FsEntries]
    /\ iter = 0
    /\ state = [current |-> None, previous |-> None]
    /\ out = <<>>
    /\ chkinfo = ChkInfoNew(fs, Error1Path, 0, 0)
    /\ counter = 0
    /\ total_size = 0
    /\ limit = None
    /\ collections_vec = <<>>
    /\ table_matrix = <<>>
    /\ output = <<>>
    /\ iterations = 0
    /\ IdleName
    /\ IdleProbe
    /\ pc = "report_call"
    /\ root_exists \in BOOLEAN
    /\ folders \in DistinctSeqs(ReportFolders, MaxFolders)
    /\ cache_total \in 0..MaxSize
    /\ next_folder = 0
    /\ report = <<>>
    /\ result = None
    /\ reads = {}

reportFrame ==
    <<fs, iter, state, aggVars, renderVars, iterations, nameVars, probeVars>>

\* mutant: the summary line is written before the root folder is checked
CheckRootAfterSummary ==
    /\ pc = "report_call"
    /\ report' = SummaryLine(CheckoutsDir, cache_total)
    /\ reads' = reads \cup {"total_size"}
    /\ IF ~root_exists
       THEN /\ result' = Some(report')
            /\ pc' = "report_returned"
       ELSE /\ result' = result
            /\ pc' = "report_folders"
    /\ UNCHANGED <<file_descs, root_exists, folders, cache_total, next_folder>>
    /\ UNCHANGED reportFrame

\* if !dir_exists(path) { return output; } and the push of the summary line
CheckRoot ==
    /\ pc = "report_call"
    /\ IF ~root_exists
       THEN /\ result' = Some(report)
            /\ pc' = "report_returned"
            /\ UNCHANGED <<report, reads>>
       ELSE /\ report' = report \o SummaryLine(CheckoutsDir, cache_total)
            /\ reads' = reads \cup {"total_size"}
            /\ result' = result
            /\ pc' = "report_folders"
    /\ UNCHANGED <<file_descs, root_exists, folders, cache_total, next_folder>>
    /\ UNCHANGED reportFrame

\* file_desc_from_path: cache.git_checkouts.checkout_folders().iter()
ListFolders ==
    /\ pc = "report_folders"
    /\ reads' = reads \cup {"checkout_folders"}
    /\ pc' = "report_build"
    /\ UNCHANGED <<file_descs, root_exists, folders, cache_total, next_folder,
                   report, result>>
    /\ UNCHANGED reportFrame

\* mutant: a folder whose descriptor cannot be built is skipped
BuildDescSkipsFailure ==
    /\ pc = "report_build"
    /\ next_folder < Len(folders)
    /\ next_folder' = next_folder + 1
    /\ LET path == folders[next_folder']
       IN  IF name_from_pb(path) = Panic
           THEN UNCHANGED <<file_descs, reads>>
           ELSE /\ reads' = reads \cup {"probe"}
                /\ \E probe \in ProbeOutcomes(fs, path) :
                      IF probe.panics
                      THEN UNCHANGED file_descs
                      ELSE file_descs' =
                              Append(file_descs,
                                     FileDescBuilt(path, probe.size))
    /\ UNCHANGED <<pc, root_exists, folders, cache_total, report, result>>
    /\ UNCHANGED reportFrame

\* .map(|path| FileDesc::new_from_git_checkouts(path)) on the next folder
BuildDesc ==
    /\ pc = "report_build"
    /\ next_folder < Len(folders)
    /\ next_folder' = next_folder + 1
    /\ LET path == folders[next_folder']
       IN  IF name_from_pb(path) = Panic
           THEN /\ pc' = "panicked"
                /\ UNCHANGED <<file_descs, reads>>
           ELSE /\ reads' = reads \cup {"probe"}
                /\ \E probe \in ProbeOutcomes(fs, path) :
                      IF probe.panics
                      THEN /\ pc' = "panicked"
                           /\ UNCHANGED file_descs
                      ELSE /\ pc' = pc
                           /\ file_descs' =
                                 Append(file_descs,
                                        FileDescBuilt(path, probe.size))
    /\ UNCHANGED <<root_exists, folders, cache_total, report, result>>
    /\ UNCHANGED reportFrame

\* .collect::<Vec<_>>() and the call of stats_from_file_desc_list
CallAggregator ==
    /\ pc = "report_build"
    /\ next_folder = Len(folders)
    /\ pc' = "start"
    /\ UNCHANGED <<file_descs, reportVars>>
    /\ UNCHANGED reportFrame

\* output.push_str(&tmp); output
PushTable ==
    /\ pc = "rendered"
    /\ report' = report \o output
    /\ result' = Some(report')
    /\ pc' = "report_returned"
    /\ UNCHANGED <<file_descs, root_exists, folders, cache_total, next_folder,
                   reads>>
    /\ UNCHANGED reportFrame

NextReport ==
    \/ CheckRoot
    \/ ListFolders
    \/ BuildDesc
    \/ CallAggregator
    \/ StartLooping
    \/ ArmFirst
    \/ ArmSameName
    \/ ArmOtherName
    \/ ArmLast
    \/ Return
    \/ Render
    \/ PushTable

SpecReport == InitReport /\ [][NextReport]_vars

(***************************************************************************)
(* Vocabulary of the claims.                                               *)
(***************************************************************************)
\* the aggregator has returned
Returned == pc \in {"returned", "rendered", "panicked"}

\* the positions at which a maximal run of equal names starts
RunStarts(s) == {i \in 1..Len(s) : i = 1 \/ s[i].name # s[i - 1].name}

\* first and last position of the k-th run
RunFirst(s, k) ==
    CHOOSE i \in RunStarts(s) : Cardinality({j \in RunStarts(s) : j <= i}) = k
RunLast(s, k) ==
    IF k = Cardinality(RunStarts(s)) THEN Len(s) ELSE RunFirst(s, k + 1) - 1

RECURSIVE SumSize(_, _, _)
SumSize(s, lo, hi) ==
    IF lo > hi THEN 0 ELSE s[lo].size + SumSize(s, lo + 1, hi)

RECURSIVE SumCounter(_)
SumCounter(v) ==
    IF v = <<>> THEN 0 ELSE v[1].counter + SumCounter(Tail(v))

RECURSIVE SumTotal(_)
SumTotal(v) ==
    IF v = <<>> THEN 0 ELSE v[1].total_size + SumTotal(Tail(v))

\* all descriptors sharing a name are contiguous
GroupedByName(s) ==
    \A i, j \in 1..Len(s) :
        (i < j /\ s[i].name = s[j].name) =>
            \A k \in i..j : s[k].name = s[i].name

(***************************************************************************)
(* C1: when the aggregator has returned, out holds exactly one group per   *)
(* maximal run of consecutive equal-name descriptors, in the order of the  *)
(* runs; the k-th group's counter is the length of the k-th run and its    *)
(* total_size the sum of the sizes of the k-th run.                        *)
(***************************************************************************)
C1_OneGroupPerRun ==
    Returned =>
        /\ Len(out) = Cardinality(RunStarts(file_descs))
        /\ \A k \in 1..Len(out) :
              /\ out[k].counter =
                    RunLast(file_descs, k) - RunFirst(file_descs, k) + 1
              /\ out[k].total_size =
                    SumSize(file_descs, RunFirst(file_descs, k),
                            RunLast(file_descs, k))

\* a run of two descriptors of sizes 1 and 1 followed by a run of one
C1_Witness ==
    /\ pc = "returned"
    /\ Len(file_descs) = 3
    /\ RunStarts(file_descs) = {1, 3}
    /\ Len(out) = 2
    /\ out[1].counter = 2 /\ out[1].total_size = 2
    /\ out[2].counter = 1

(***************************************************************************)
(* C2: for a non-empty descriptor list grouped by name, the counters of    *)
(* the returned groups add up to the length of the list.                   *)
(***************************************************************************)
C2_CountsAddUp ==
    (Returned /\ file_descs # <<>> /\ GroupedByName(file_descs)) =>
        SumCounter(out) = Len(file_descs)

C2_Witness ==
    /\ pc = "returned"
    /\ Len(file_descs) = 3
    /\ GroupedByName(file_descs)
    /\ file_descs[1].name = file_descs[2].name
    /\ file_descs[2].name # file_descs[3].name
    /\ SumCounter(out) = 3

(***************************************************************************)
(* C3: for a non-empty descriptor list grouped by name, the total sizes of *)
(* the returned groups add up to the sum of the sizes of all descriptors;  *)
(* a descriptor of size 0 is a member that adds 0.                         *)
(***************************************************************************)
C3_SizesAddUp ==
    (Returned /\ file_descs # <<>> /\ GroupedByName(file_descs)) =>
        SumTotal(out) = SumSize(file_descs, 1, Len(file_descs))

\* two runs, one of them holding a descriptor of size 0 next to one of size 1
C3_Witness ==
    /\ pc = "returned"
    /\ Len(file_descs) = 3
    /\ GroupedByName(file_descs)
    /\ file_descs[1].name # file_descs[2].name
    /\ file_descs[2].name = file_descs[3].name
    /\ file_descs[1].size = 1 /\ file_descs[2].size = 0 /\ file_descs[3].size = 1
    /\ SumTotal(out) = 2
    /\ out[2].counter = 2

(***************************************************************************)
(* C4: every returned group carries the name of the descriptors of its     *)
(* run.  ChkInfo::new does not read the descriptor's name: it derives the  *)
(* group's name from the descriptor's path and from the filesystem, and    *)
(* for a checkout folder that is gone it yields the revision component.    *)
(***************************************************************************)
C4_GroupNameIsRunName ==
    Returned =>
        \A k \in 1..Len(out) :
            k <= Cardinality(RunStarts(file_descs)) =>
                out[k].name = file_descs[RunLast(file_descs, k)].name

(***************************************************************************)
(* C5: for an empty descriptor list the aggregator opens no group (the     *)
(* pending line stays the "ERROR 1" placeholder, nothing is counted) and   *)
(* closes none (out stays empty); chkout_list_to_string on the empty       *)
(* vector returns the empty text for every limit, without a header row.    *)
(***************************************************************************)
C5_EmptyInEmptyOut ==
    /\ file_descs = <<>> =>
          /\ out = <<>>
          /\ counter = 0 /\ total_size = 0
          /\ chkinfo = ChkInfoNew(fs, Error1Path, 0, 0)
          /\ state.current = None /\ state.previous = None
          /\ pc # "panicked"
    /\ (pc = "returned" /\ out = <<>>) =>
          \A l \in 0..MaxLimit : chkout_list_to_string(l, out) = <<>>
    /\ (pc = "rendered" /\ out = <<>>) =>
          /\ output = <<>>
          /\ table_matrix = <<>>

C5_Witness ==
    /\ pc = "rendered"
    /\ file_descs = <<>>
    /\ out = <<>>
    /\ limit = Some(MaxLimit)
    /\ output = <<>>

(***************************************************************************)
(* C6: every group in out has counter >= 1 (the placeholders with counter  *)
(* 0 are never saved), so the division total_size / counter of the         *)
(* renderer never panics on what the aggregator returns.                   *)
(***************************************************************************)
C6_NoEmptyGroup ==
    /\ \A k \in 1..Len(out) : out[k].counter >= 1
    /\ pc # "panicked"
    /\ pc = "returned" =>
          \A l \in 0..MaxLimit : chkout_list_to_string(l, out) # Panic

\* three groups, all three divided
C6_Witness ==
    /\ pc = "rendered"
    /\ Len(out) = 3
    /\ limit = Some(3)
    /\ Len(table_matrix) = 4

(***************************************************************************)
(* Vocabulary of the renderer's claims.                                    *)
(***************************************************************************)
\* every ordering of the elements of v
Perms(v) ==
    {[i \in 1..Len(v) |-> v[f[i]]] :
        f \in {g \in [1..Len(v) -> 1..Len(v)] :
                  \A i, j \in 1..Len(v) : g[i] = g[j] => i = j}}

\* the groups of v whose total size is t, in their order in v
RECURSIVE TiesOf(_, _)
TiesOf(v, t) ==
    IF v = <<>> THEN <<>>
    ELSE (IF v[1].total_size = t THEN <<v[1]>> ELSE <<>>) \o TiesOf(Tail(v), t)

\* every x of s stands in front of every y of s
AllBefore(s, x, y) ==
    \A i, j \in 1..Len(s) : (s[i] = x /\ s[j] = y) => i < j

\* the rows behind the header
DataRows == SubSeq(table_matrix, 2, Len(table_matrix))

\* the lines of the returned text
NumLines(text) == Cardinality({i \in 1..Len(text) : text[i] = Newline})
Line(text, k) == Split(text, Newline)[k]

(***************************************************************************)
(* C7: for a non-empty group list, the renderer emits the header and       *)
(* exactly min(limit, number of groups) data rows; the rows are those of   *)
(* a reordering of the groups in descending total_size, and no group       *)
(* left out is larger than a group shown.                                  *)
(***************************************************************************)
C7_TopRowsDescending ==
    (pc = "rendered" /\ out # <<>>) =>
        LET n == Min(Unwrap(limit), Len(out))
        IN  /\ Len(table_matrix) = 1 + n
            /\ table_matrix[1] = HeaderRow
            /\ NumLines(output) = 1 + n
            /\ collections_vec \in Perms(out)
            /\ \A i \in 1..n :
                  /\ table_matrix[i + 1] = Row(collections_vec[i])
                  /\ SubSeq(Line(output, i + 1), 1,
                            Len(collections_vec[i].name))
                        = collections_vec[i].name
            /\ \A i \in 1..(n - 1) :
                  collections_vec[i].total_size
                      >= collections_vec[i + 1].total_size
            /\ \A i \in 1..n : \A j \in (n + 1)..Len(out) :
                  collections_vec[j].total_size
                      <= collections_vec[i].total_size

\* the smaller group comes first in the input and is cut off by the limit
C7_Witness ==
    /\ pc = "rendered"
    /\ Len(out) = 3
    /\ limit = Some(2)
    /\ out[1].total_size < out[2].total_size
    /\ out[3].total_size = out[2].total_size
    /\ Len(table_matrix) = 3
    /\ collections_vec[3] = out[1]

(***************************************************************************)
(* C8, as claimed: groups of equal total_size keep their relative order:   *)
(* if g stands in front of h in the rendered list and both have the same   *)
(* total_size, g's row stands in front of h's row.                         *)
(***************************************************************************)
C8_TiesKeepOrder ==
    pc = "rendered" =>
        \A i, j \in 1..Len(out) :
            (/\ out[i].total_size = out[j].total_size
             /\ Row(out[i]) # Row(out[j])
             /\ AllBefore(out, out[i], out[j]))
                => AllBefore(DataRows, Row(out[i]), Row(out[j]))

(***************************************************************************)
(* C8, amended: sort() is stable and ascending and reverse() follows it,   *)
(* so groups of equal total_size come out in the reverse of their          *)
(* relative order: if g stands in front of h in the rendered list and      *)
(* both have the same total_size, h's row stands in front of g's row.      *)
(***************************************************************************)
C8_TiesAreReversed ==
    pc = "rendered" =>
        \A i, j \in 1..Len(out) :
            (/\ out[i].total_size = out[j].total_size
             /\ Row(out[i]) # Row(out[j])
             /\ AllBefore(out, out[i], out[j]))
                => AllBefore(DataRows, Row(out[j]), Row(out[i]))

\* two groups of the same total size and different names, both shown
C8_Witness ==
    /\ pc = "rendered"
    /\ Len(out) = 2
    /\ out[1].total_size = out[2].total_size
    /\ out[1].name # out[2].name
    /\ limit = Some(2)
    /\ DataRows = <<Row(out[2]), Row(out[1])>>

(***************************************************************************)
(* C9, as claimed: the returned text is the same for every ordering of     *)
(* the same groups and the same limit.                                     *)
(***************************************************************************)
C9_AnyOrderSameText ==
    pc = "rendered" =>
        \A p \in Perms(out) :
            chkout_list_to_string(Unwrap(limit), p) = output

(***************************************************************************)
(* C9, amended: the returned text is the same for every two orderings of   *)
(* the same groups, with the same limit, in which the groups of equal      *)
(* total_size stand in the same relative order.                            *)
(***************************************************************************)
C9_SameTieOrderSameText ==
    pc = "rendered" =>
        \A p \in Perms(out) :
            (\A k \in 1..Len(out) :
                TiesOf(p, out[k].total_size) = TiesOf(out, out[k].total_size))
                => chkout_list_to_string(Unwrap(limit), p) = output

\* two groups of different total sizes: the other ordering is rendered alike
C9_Witness ==
    /\ pc = "rendered"
    /\ Len(out) = 2
    /\ out[1].total_size < out[2].total_size
    /\ limit = Some(1)
    /\ chkout_list_to_string(1, <<out[2], out[1]>>) = output
    /\ output # <<>>

(***************************************************************************)
(* C10: with limit 0 and at least one group the renderer returns the       *)
(* header row (Name, Count, Average, Total) and no data row; the text is   *)
(* not empty.                                                              *)
(***************************************************************************)
C10_HeaderOnlyOnLimitZero ==
    (pc = "rendered" /\ limit = Some(0) /\ out # <<>>) =>
        /\ table_matrix = <<HeaderRow>>
        /\ output = Join(HeaderRow, Space) \o <<Newline>>
        /\ output # <<>>

C10_Witness ==
    /\ pc = "rendered"
    /\ limit = Some(0)
    /\ Len(out) = 2
    /\ NumLines(output) = 1

(***************************************************************************)
(* C11: every data row shows its group's name, its counter in decimal,     *)
(* its total size, and as average the truncating quotient                  *)
(* total_size / counter: average * counter <= total_size                   *)
(* < (average + 1) * counter.                                              *)
(***************************************************************************)
C11_RowShowsTruncatedAverage ==
    (pc = "rendered" /\ out # <<>>) =>
        \A i \in 1..Len(DataRows) :
            LET g == collections_vec[i]
                row == DataRows[i]
            IN  /\ row[1] = g.name
                /\ row[2] = ToDecimal(g.counter)
                /\ row[4] = FileSize(g.total_size)
                /\ \E average \in 0..g.total_size :
                      /\ row[3] = FileSize(average)
                      /\ average * g.counter <= g.total_size
                      /\ g.total_size < (average + 1) * g.counter

\* a group of two checkouts with 1 byte in all: the row shows "0 B"
C11_Witness ==
    /\ pc = "rendered"
    /\ \E i \in 1..Len(DataRows) :
          /\ collections_vec[i].counter = 2
          /\ collections_vec[i].total_size = 1
          /\ DataRows[i][3] = FileSize(0)
          /\ DataRows[i][4] = FileSize(1)

(***************************************************************************)
(* Vocabulary of the claims on name_from_pb.                               *)
(***************************************************************************)
HasHyphen(seg) == \E i \in 1..Len(seg) : seg[i] = Hyphen

\* the position of the last hyphen of a component that has one
LastHyphen(seg) ==
    CHOOSE k \in 1..Len(seg) :
        /\ seg[k] = Hyphen
        /\ \A j \in (k + 1)..Len(seg) : seg[j] # Hyphen

\* the component <project>-<suffix> of a path, its project and its suffix
SuffixSegment(path) == path[Len(path) - 1]
ProjectOf(seg) == SubSeq(seg, 1, LastHyphen(seg) - 1)
SuffixOf(seg) == SubSeq(seg, LastHyphen(seg) + 1, Len(seg))

\* hyphen-free suffixes and revisions to vary a path with
OtherSuffixes == UNION {[1..k -> NameChars \ {Hyphen}] : k \in 1..MaxSegLen}
OtherRevisions == {<<"b">>, <<"a", "-", "b">>}

(***************************************************************************)
(* C13: on a path ending in <project>-<suffix>/<revision> with a suffix    *)
(* without hyphen, name_from_pb returns exactly <project>, also when       *)
(* <project> holds hyphens; so every path that differs from it only in     *)
(* the suffix and in the revision gets the same name.                      *)
(***************************************************************************)
C13_NameIsProject ==
    (pc \in {"name_done", "panicked"} /\ path_arg # None) =>
        LET path == Unwrap(path_arg)
        IN  (Len(path) >= 2 /\ HasHyphen(SuffixSegment(path))) =>
                LET project == ProjectOf(SuffixSegment(path))
                IN  /\ name_out = project
                    /\ pc = "name_done"
                    /\ \A suffix \in OtherSuffixes, revision \in OtherRevisions :
                          name_from_pb(SubSeq(path, 1, Len(path) - 2)
                                         \o <<project \o <<Hyphen>> \o suffix,
                                              revision>>)
                              = name_out

\* the project a-a of the path co/a-a-a/a holds a hyphen
C13_Witness ==
    /\ pc = "name_done"
    /\ path_arg = Some(CheckoutsDir \o << <<"a", "-", "a", "-", "a">>, <<"a">> >>)
    /\ name_out = <<"a", "-", "a">>

(***************************************************************************)
(* C14: name_from_pb fails, and returns no name, on a path of fewer than   *)
(* two components and on a path whose last-but-one component cannot be     *)
(* split into a project and a suffix (a component without hyphen).         *)
(* The second half does not hold of the code: split('-') of a component    *)
(* without hyphen is the component alone, split_last() succeeds, and the   *)
(* empty name is returned.                                                 *)
(***************************************************************************)
C14_MalformedPathFails ==
    (pc \in {"name_done", "panicked"} /\ path_arg # None) =>
        LET path == Unwrap(path_arg)
        IN  (Len(path) < 2 \/ ~HasHyphen(SuffixSegment(path))) =>
                (pc = "panicked" /\ name_out = Panic)

(***************************************************************************)
(* Vocabulary of the claims on runs of a repeated name.                    *)
(***************************************************************************)
\* the positions whose descriptor has another name than its predecessor
NameChanges(s) == {i \in 2..Len(s) : s[i].name # s[i - 1].name}

\* the name the descriptors of the k-th run share
RunName(s, k) == s[RunFirst(s, k)].name

\* the distinct names of s in the order of their first occurrence
RECURSIVE NamesInOrder(_)
NamesInOrder(s) ==
    IF s = <<>> THEN <<>>
    ELSE LET before == NamesInOrder(AllButLast(s))
             n == s[Len(s)].name
         IN  IF \E i \in 1..Len(before) : before[i] = n
             THEN before
             ELSE Append(before, n)

\* an order-preserving mapping keyed by name that accumulates per name how
\* many descriptors carry it and the sum of their sizes
MapAggregate(s) ==
    LET names == NamesInOrder(s)
        Of(n) == {i \in 1..Len(s) : s[i].name = n}
        RECURSIVE SumOver(_)
        SumOver(I) ==
            IF I = {} THEN 0
            ELSE LET i == CHOOSE x \in I : TRUE
                 IN  s[i].size + SumOver(I \ {i})
    IN  [k \in 1..Len(names) |->
            [name |-> names[k],
             counter |-> Cardinality(Of(names[k])),
             total_size |-> SumOver(Of(names[k]))]]

\* a group as the mapping would hold it: name, counter, total_size
GroupsOf(v) ==
    [k \in 1..Len(v) |->
        [name |-> v[k].name,
         counter |-> v[k].counter,
         total_size |-> v[k].total_size]]

C16_SameAsKeyedMapping ==
    (Returned /\ GroupedByName(file_descs)) =>
        /\ GroupsOf(out) = MapAggregate(file_descs)
        /\ \A k, l \in 1..Len(out) : out[k].name = out[l].name => k = l

(***************************************************************************)
(* C17: out changes only by the appending of the pending group, at a step  *)
(* at which a run closes: the previous descriptor exists and the current   *)
(* one has another name or there is no current one; the group appended     *)
(* holds the whole run; what has been appended stays as it is, and at the  *)
(* return there is one group per run.                                      *)
(***************************************************************************)
C17_AppendOnlyWhenRunCloses ==
    [][/\ SubSeq(out', 1, Len(out)) = out
       /\ Len(out') <= Len(out) + 1
       /\ out' # out =>
             /\ out' = Append(out, chkinfo)
             /\ IsSome(state.previous)
             /\ \/ ~IsSome(state.current)
                \/ Unwrap(state.current).name # Unwrap(state.previous).name
             /\ chkinfo.counter =
                   RunLast(file_descs, Len(out')) -
                       RunFirst(file_descs, Len(out')) + 1
             /\ RunLast(file_descs, Len(out')) =
                   (IF IsSome(state.current) THEN iter - 1 ELSE iter)
       /\ pc' = "returned" => Len(out') = Cardinality(RunStarts(file_descs))
      ]_vars

\* a group has been appended because the name changed, and input is left
C17_Witness ==
    /\ pc = "loop"
    /\ Len(out) = 1
    /\ out[1].counter = 1
    /\ IsSome(state.current)
    /\ IsSome(state.previous)

(***************************************************************************)
(* C18: the loop of the aggregator ends: its body never runs more than     *)
(* n + 1 times for n >= 1 descriptors (never for n = 0), a step is always  *)
(* possible while it runs, and at the return it has run exactly n + 1      *)
(* times (0 times), every descriptor has been handed out once, in order,   *)
(* both slots of the pair are None and no group is pending (counter = 0,   *)
(* total_size = 0).  The body is never entered with both slots None.       *)
(***************************************************************************)
LoopRuns(n) == IF n = 0 THEN 0 ELSE n + 1

C18_LoopTerminates ==
    /\ iterations <= LoopRuns(Len(file_descs))
    /\ pc = "loop" =>
          /\ ENABLED (ArmFirst \/ ArmSameName \/ ArmOtherName \/ ArmLast \/ Return)
          /\ LoopCond => (IsSome(state.current) \/ IsSome(state.previous))
          /\ IsSome(state.current) =>
                /\ iterations = iter - 1
                /\ state.current = Some(file_descs[iter])
          /\ IsSome(state.previous) =>
                state.previous = Some(file_descs[iterations])
    /\ Returned =>
          /\ iterations = LoopRuns(Len(file_descs))
          /\ iter = Len(file_descs)
          /\ state = [current |-> None, previous |-> None]
          /\ counter = 0 /\ total_size = 0

\* three descriptors, four runs of the body
C18_Witness ==
    /\ pc = "returned"
    /\ Len(file_descs) = 3
    /\ iterations = 4
    /\ Len(out) >= 1

(***************************************************************************)
(* C19: an entry that another process deletes after the walk has handed it *)
(* out and before its metadata is read is left out of the sum without an   *)
(* error: the probe does not fail and what it returns is the sum of the    *)
(* lengths it has read, whenever the deletion happens.                     *)
(* The code fails when the deletion falls between f.exists() and           *)
(* fs::metadata(f).                                                        *)
(***************************************************************************)
RECURSIVE SumLen(_)
SumLen(E) ==
    IF E = {} THEN 0
    ELSE LET e == CHOOSE x \in E : TRUE
         IN  tree[e].len + SumLen(E \ {e})

\* handed out by the walk, gone before the metadata was read
Vanished == {e \in enumerated \ measured : ~tree[e].present}

C19_VanishedEntryIsLeftOut ==
    /\ Vanished # {} => pc # "panicked"
    /\ pc = "probe_done" =>
          /\ probe_size = SumLen(measured)
          /\ measured \cap Vanished = {}

(***************************************************************************)
(* C12: when the root folder does not exist, git_checkouts_stats returns   *)
(* the empty text, whatever the limit and the cache hold: no summary line  *)
(* is written, neither the total size nor the checkout folders of the      *)
(* cache are read, and no checkout is looked at.                           *)
(***************************************************************************)
C12_MissingRootEmptyReport ==
    ~root_exists =>
        /\ pc \in {"report_call", "report_returned"}
        /\ report = <<>>
        /\ reads = {}
        /\ next_folder = 0
        /\ file_descs = <<>>
        /\ limit = None
        /\ pc = "report_returned" => result = Some(<<>>)

\* returned for a missing root although the cache lists folders and a size
C12_Witness ==
    /\ pc = "report_returned"
    /\ ~root_exists
    /\ Len(folders) >= 1
    /\ cache_total >= 1
    /\ result = Some(<<>>)

(***************************************************************************)
(* C20: git_checkouts_stats returns all or nothing.  When the descriptor   *)
(* of a checkout folder cannot be built (name_from_pb panics, or the size  *)
(* computation panics) nothing is returned, also not the summary line or   *)
(* the rows of the other folders.  What is returned is either the empty    *)
(* text, for a missing root, or the summary line followed by the table     *)
(* rendered from the descriptors of all the checkout folders.              *)
(***************************************************************************)
BuildFails(path) == name_from_pb(path) = Panic \/ ~Exists(fs, path)

C20_AllOrNothing ==
    /\ pc = "panicked" => result = None
    /\ (root_exists /\ \E k \in 1..Len(folders) : BuildFails(folders[k])) =>
          result = None
    /\ IsSome(result) =>
          /\ pc = "report_returned"
          /\ IF root_exists
             THEN /\ Len(file_descs) = Len(folders)
                  /\ \A k \in 1..Len(folders) :
                        file_descs[k].path = folders[k]
                  /\ SumCounter(out) = Len(folders)
                  /\ Unwrap(result) =
                        SummaryLine(CheckoutsDir, cache_total)
                            \o chkout_list_to_string(Unwrap(limit), out)
             ELSE Unwrap(result) = <<>>

\* the second folder failed after the summary line and the first descriptor
C20_Witness ==
    /\ pc = "panicked"
    /\ Len(folders) = 2
    /\ Len(file_descs) = 1
    /\ report # <<>>
    /\ result = None

====
